---------------------------- MODULE Spec2Model ----------------------------
(***************************************************************************)
(* Sharded OHLC store of stock-screener-data: the full rebuild             *)
(* (process_ohlc_full.py) and the daily update (process_ohlc_daily.py).    *)
(*                                                                         *)
(* and the ranking run (process_stocks.py).                                *)
(*                                                                         *)
(* Six specifications share the module:                                    *)
(*   SpecMerge    update_symbol_data applied to bounded inputs             *)
(*   SpecPlan     get_split_ranges applied to bounded inputs               *)
(*   Spec         the store: rebuild runs and daily update runs over the   *)
(*                shard files and ohlc_index.json                          *)
(*   SpecSplit    process_split_file applied to bounded inputs             *)
(*   SpecReturns  calculate_returns applied to bounded inputs              *)
(*   SpecRank     ranking runs over rankings.json                          *)
(***************************************************************************)
EXTENDS Integers, Sequences, FiniteSets, TLC

VARIABLES
    \* ---- SpecMerge: one call of update_symbol_data, then a second one
    m_pc,          \* "in" | "once" | "twice"
    m_data,        \* symbol_data before the first call
    m_bar,         \* latest_bar
    m_once,        \* [data, updated] after the first call
    m_twice,       \* [data, updated] after the second call
    \* ---- SpecPlan: one call of get_split_ranges
    p_pc,          \* "in" | "planned"
    p_symbols,     \* self.symbols, in the order rankings.json lists them
    p_N,           \* self.target_symbols_per_file
    p_splits,      \* the returned plan
    \* ---- Spec: the store and the two jobs that write it
    files,         \* filename -> NoFile | Truncated | the shard file's content
    index,         \* ohlc_index.json: NoFile | Truncated | its content
    today,         \* the calendar day (a bar's t is its day)
    now,           \* reads of datetime.now() so far: the last value read
    runs,          \* runs started so far
    pc,            \* "idle", or the step the running job is at
    rb,            \* locals of the running rebuild
    dy,            \* locals of the running daily update
    \* ---- SpecSplit: one call of process_split_file
    s_pc,          \* "in" | "done"
    s_info,        \* file_info, the descriptor the index holds for the file
    s_file,        \* the shard file
    s_fetched,     \* what fetch_latest_daily_data returns for each symbol
    s_results,     \* the returned counters
    \* ---- SpecReturns: one call of calculate_returns
    c_pc,          \* "in" | "done"
    c_prices,      \* prices
    c_result,      \* None, or [returns, avg_volume]
    \* ---- SpecRank: process_stocks.py main
    rankings,      \* rankings.json: NoFile | its content
    r_pc,          \* "idle", or the step the ranking run is at
    r_runs,        \* ranking runs started so far
    r_tickers,     \* tickers
    r_prices,      \* what get_stock_data returns for each ticker
    r_all          \* all_stock_data

mergeVars == <<m_pc, m_data, m_bar, m_once, m_twice>>
planVars  == <<p_pc, p_symbols, p_N, p_splits>>
storeVars == <<files, index, today, now, runs, pc, rb, dy>>
splitVars  == <<s_pc, s_info, s_file, s_fetched, s_results>>
returnVars == <<c_pc, c_prices, c_result>>
rankVars   == <<rankings, r_pc, r_runs, r_tickers, r_prices, r_all>>
laterVars  == <<splitVars, returnVars, rankVars>>
vars       == <<mergeVars, planVars, storeVars, laterVars>>

----------------------------------------------------------------------------
(* Bounds and scaled program constants *)

\* Retention cap of a 1D series; stands for the program's 400
\* (process_ohlc_daily.py:117-118), scaled down.
RetentionCap == 2

\* Symbols per shard file; stands for the program's 50
\* (process_ohlc_full.py:31), scaled down.
target_symbols_per_file == 2

\* Spec: runs (rebuilds and daily updates) started, and midnights passed.
MaxRuns == 3
MaxTicks == 1

\* Days (timestamps) a bar can carry in SpecMerge.
MaxT == 5

\* Longest symbol list and largest shard size drawn in SpecPlan.
MaxSyms == 4
MaxN == 3

\* SpecSplit: symbols a descriptor lists.
MaxListed == 2

\* SpecReturns: the highest close, and bars beyond the required MinBars.
MaxClose == 2
MaxExtraBars == 1

\* SpecRank: ranking runs started, and tickers the provider lists.
MaxRankRuns == 2
MaxTickers == 3

----------------------------------------------------------------------------
(* Data model *)

\* A bar is {t, o, h, l, c, v}; the store never reads o, h, l, c, v, so the
\* payload is one field c.
Payloads == {1, 2}
Bar(t, c) == [t |-> t, c |-> c]

Min(a, b) == IF a < b THEN a ELSE b
Max(a, b) == IF a > b THEN a ELSE b

\* The elements of a list.
Members(s) == {s[i] : i \in 1..Len(s)}

\* s[from..to] as a sequence (empty when from > to).
Slice(s, from, to) == [i \in 1..Max(0, to - from + 1) |-> s[from + i - 1]]

\* Python's s[-n:] for n >= 1.
LastN(s, n) == Slice(s, Max(1, Len(s) - n + 1), Len(s))

\* list.sort(key=lambda x: x['t']): stable, ascending by t.
RECURSIVE InsertByT(_, _)
InsertByT(sorted, b) ==
    IF sorted = <<>> THEN <<b>>
    ELSE IF sorted[Len(sorted)].t <= b.t THEN Append(sorted, b)
    ELSE Append(InsertByT(Slice(sorted, 1, Len(sorted) - 1), b),
                sorted[Len(sorted)])

RECURSIVE SortByT(_)
SortByT(s) ==
    IF s = <<>> THEN <<>>
    ELSE InsertByT(SortByT(Slice(s, 1, Len(s) - 1)), s[Len(s)])

\* Index of the first bar of s with timestamp t (0 when there is none).
FirstIndexOfT(s, t) ==
    IF \E i \in 1..Len(s) : s[i].t = t
    THEN CHOOSE i \in 1..Len(s) :
            s[i].t = t /\ \A j \in 1..(i - 1) : s[j].t # t
    ELSE 0

----------------------------------------------------------------------------
(* OHLCDailyProcessor.update_symbol_data *)

\* Mutants of the append branch: the cut keeps the oldest bars; the sort is
\* left out.
AppendBranch_KeepsOldest(daily_data, latest_bar) ==
    LET sorted == SortByT(Append(daily_data, latest_bar))
    IN  IF Len(sorted) > RetentionCap THEN Slice(sorted, 1, RetentionCap)
        ELSE sorted

AppendBranch_NoSort(daily_data, latest_bar) ==
    LET appended == Append(daily_data, latest_bar)
    IN  IF Len(appended) > RetentionCap THEN LastN(appended, RetentionCap)
        ELSE appended

\* The append branch: append, sort, keep the last RetentionCap bars.
AppendBranch(daily_data, latest_bar) ==
    LET sorted == SortByT(Append(daily_data, latest_bar))
    IN  IF Len(sorted) > RetentionCap THEN LastN(sorted, RetentionCap)
        ELSE sorted

\* The replace branch: overwrite the first bar with that timestamp.
ReplaceBranch(daily_data, latest_bar, update_timestamp) ==
    [daily_data EXCEPT ![FirstIndexOfT(daily_data, update_timestamp)] = latest_bar]

\* Mutant: the timestamp check is lost and every bar is appended.
update_symbol_data_AlwaysAppends(symbol_data, latest_bar, update_timestamp) ==
    IF "1D" \in DOMAIN symbol_data
    THEN [data |-> [symbol_data EXCEPT
                       !["1D"] = AppendBranch(symbol_data["1D"], latest_bar)],
          updated |-> TRUE]
    ELSE [data |-> symbol_data, updated |-> FALSE]

\* Mutant: the bar is merged into every timeframe of the symbol.
update_symbol_data_EveryTimeframe(symbol_data, latest_bar, update_timestamp) ==
    [data |-> [tf \in DOMAIN symbol_data |->
                  IF update_timestamp \notin
                        {symbol_data[tf][i].t : i \in 1..Len(symbol_data[tf])}
                  THEN AppendBranch(symbol_data[tf], latest_bar)
                  ELSE ReplaceBranch(symbol_data[tf], latest_bar,
                                     update_timestamp)],
     updated |-> "1D" \in DOMAIN symbol_data]

\* Returns the symbol's data after the call and the returned flag.
update_symbol_data(symbol_data, latest_bar, update_timestamp) ==
    IF "1D" \in DOMAIN symbol_data
    THEN LET daily_data == symbol_data["1D"]
             existing_timestamps == {daily_data[i].t : i \in 1..Len(daily_data)}
         IN  IF update_timestamp \notin existing_timestamps
             THEN [data |-> [symbol_data EXCEPT
                                !["1D"] = AppendBranch(daily_data, latest_bar)],
                   updated |-> TRUE]
             ELSE [data |-> [symbol_data EXCEPT
                                !["1D"] = ReplaceBranch(daily_data, latest_bar,
                                                        update_timestamp)],
                   updated |-> TRUE]
    ELSE [data |-> symbol_data, updated |-> FALSE]

----------------------------------------------------------------------------
(* The store: shard files ohlc_001.json, ohlc_002.json, ... and the index *)

\* Ticker symbols are strings; a symbol is the sequence of its letters
\* (1 = "A", 2 = "B"), so <<1, 2>> is "AB".
Symbols == {<<1>>, <<1, 2>>, <<2>>, <<2, 1>>}

\* What rankings.json can list when a rebuild starts: nothing (load_symbols
\* returns [] when the file cannot be read), B A, or BA B AB.
Universes == {<<>>, <<<<2>>, <<1>>>>, <<<<2, 1>>, <<2>>, <<1, 2>>>>}

\* A file that does not exist, and one opened with 'w' and not yet written
\* (empty or partly written: json.load fails on it).
NoFile == [exists |-> FALSE]
Truncated == [exists |-> TRUE]
IsContent(f) == "last_updated" \in DOMAIN f

\* Python's None.
None == [none |-> TRUE]

\* ohlc_00i.json is named by i.
FileNames == 1..2

\* get_date_ranges: a rebuild asks for the days today - RebuildDays .. today;
\* the program's 400 (process_ohlc_full.py:79) is its retention cap too.
RebuildDays == RetentionCap
FirstDay == RebuildDays + 1

RECURSIVE SumOver(_, _)
SumOver(S, f) ==
    IF S = {} THEN 0
    ELSE LET x == CHOOSE y \in S : TRUE
         IN  f[x] + SumOver(S \ {x}, f)

\* os.path.getsize of a shard file: the compact JSON grows with every symbol
\* and every bar it holds (a unit per symbol key and per bar; the metadata
\* fields keep their width: "full_rebuild" and "daily_update" are both 12
\* characters). A file opened and not yet written has size 0.
FileSize(f) ==
    IF f = Truncated THEN 0
    ELSE Cardinality(DOMAIN f.data)
         + SumOver(DOMAIN f.data,
                   [x \in DOMAIN f.data |->
                       Len(f.data[x]["1D"]) + Len(f.data[x]["1W"])])

NoRebuild == [symbols |-> <<>>, splits |-> <<>>, timestamp |-> 0, i |-> 0,
              file_data |-> NoFile, file_info |-> <<>>]
NoDaily == [index_data |-> NoFile, i |-> 0, loaded |-> NoFile,
            fetched |-> <<>>, file_data |-> NoFile,
            results |-> [updated |-> 0, failed |-> 0],
            total_updated |-> 0, total_failed |-> 0]

----------------------------------------------------------------------------
(* SpecMerge *)

\* Strictly increasing series over days 1..MaxT, at most n bars.
RECURSIVE SeriesEndingBefore(_, _)
SeriesEndingBefore(hi, n) ==
    IF n = 0 \/ hi < 1 THEN {<<>>}
    ELSE {<<>>} \cup
         UNION {{Append(s, Bar(t, c)) : s \in SeriesEndingBefore(t - 1, n - 1),
                                        c \in Payloads} : t \in 1..hi}

\* A rebuild can leave one bar more than the cap (see RebuildDays in Spec).
MergeSeries == SeriesEndingBefore(MaxT, RetentionCap + 1)
WeeklySeries == {<<>>, <<Bar(1, 1)>>}

MergeInit ==
    /\ m_pc = "in"
    /\ \E d \in MergeSeries, w \in WeeklySeries :
          m_data = [tf \in {"1D", "1W"} |-> IF tf = "1D" THEN d ELSE w]
    /\ m_bar \in {Bar(t, c) : t \in 1..MaxT, c \in Payloads}
    /\ m_once = [data |-> m_data, updated |-> FALSE]
    /\ m_twice = [data |-> m_data, updated |-> FALSE]
    /\ p_pc = "in" /\ p_symbols = <<>> /\ p_N = 1 /\ p_splits = <<>>
    /\ files = [f \in FileNames |-> NoFile]
    /\ index = NoFile
    /\ today = FirstDay
    /\ now = 0
    /\ runs = 0
    /\ pc = "idle"
    /\ rb = NoRebuild
    /\ dy = NoDaily
    /\ s_pc = "in" /\ s_info = <<>> /\ s_file = NoFile /\ s_fetched = <<>>
    /\ s_results = [updated |-> 0, failed |-> 0]
    /\ c_pc = "in" /\ c_prices = <<>> /\ c_result = None
    /\ rankings = NoFile /\ r_pc = "idle" /\ r_runs = 0
    /\ r_tickers = <<>> /\ r_prices = <<>> /\ r_all = <<>>

\* process_split_file passes latest_bar['t'] as update_timestamp.
MergeOnce ==
    /\ m_pc = "in"
    /\ m_once' = update_symbol_data(m_data, m_bar, m_bar.t)
    /\ m_pc' = "once"
    /\ UNCHANGED <<m_data, m_bar, m_twice, planVars, storeVars, laterVars>>

MergeTwice ==
    /\ m_pc = "once"
    /\ m_twice' = update_symbol_data(m_once.data, m_bar, m_bar.t)
    /\ m_pc' = "twice"
    /\ UNCHANGED <<m_data, m_bar, m_once, planVars, storeVars, laterVars>>

MergeNext == MergeOnce \/ MergeTwice

SpecMerge == MergeInit /\ [][MergeNext]_vars

----------------------------------------------------------------------------
(* OHLCFullProcessor.get_split_ranges *)

\* Python's str <: lexicographic, a proper prefix first.
SymLess(a, b) ==
    \E i \in 1..(Min(Len(a), Len(b)) + 1) :
        /\ \A j \in 1..(i - 1) : a[j] = b[j]
        /\ \/ i > Len(a) /\ i <= Len(b)
           \/ i <= Len(a) /\ i <= Len(b) /\ a[i] < b[i]

RECURSIVE InsertSymbol(_, _)
InsertSymbol(sorted, x) ==
    IF sorted = <<>> THEN <<x>>
    ELSE IF ~SymLess(x, sorted[Len(sorted)]) THEN Append(sorted, x)
    ELSE Append(InsertSymbol(Slice(sorted, 1, Len(sorted) - 1), x),
                sorted[Len(sorted)])

\* Mutant: the symbols are chunked in the order given.
SortedSymbols_Unsorted(s) == s

\* sorted(self.symbols)
RECURSIVE SortedSymbols(_)
SortedSymbols(s) ==
    IF s = <<>> THEN <<>>
    ELSE InsertSymbol(SortedSymbols(Slice(s, 1, Len(s) - 1)), s[Len(s)])

\* Mutant: the division rounds down.
Ceil_Floor(a, b) == a \div b

\* math.ceil(a / b) for a >= 0, b >= 1.
Ceil(a, b) == (a + b - 1) \div b

\* file i (from 1) of the plan is ohlc_00i.json: a file is named by i.
SplitInfo(sorted_symbols, N, i) ==
    LET start_idx == (i - 1) * N
        end_idx == Min(start_idx + N, Len(sorted_symbols))
        symbols_chunk == Slice(sorted_symbols, start_idx + 1, end_idx)
    IN  [file_index |-> i,
         filename |-> i,
         range_start |-> symbols_chunk[1],
         range_end |-> symbols_chunk[Len(symbols_chunk)],
         symbols |-> symbols_chunk,
         symbol_count |-> Len(symbols_chunk)]

get_split_ranges(symbols, N) ==
    IF symbols = <<>> THEN <<>>
    ELSE LET sorted_symbols == SortedSymbols(symbols)
             num_files == Ceil(Len(sorted_symbols), N)
         IN  [i \in 1..num_files |-> SplitInfo(sorted_symbols, N, i)]

----------------------------------------------------------------------------
(* SpecPlan *)

\* Every list of at most n symbols, repeats included.
RECURSIVE SymbolLists(_)
SymbolLists(n) ==
    IF n = 0 THEN {<<>>}
    ELSE LET shorter == SymbolLists(n - 1)
         IN  shorter \cup {Append(s, x) : s \in shorter, x \in Symbols}

PlanInit ==
    /\ p_pc = "in"
    /\ p_symbols \in SymbolLists(MaxSyms)
    /\ p_N \in 1..MaxN
    /\ p_splits = <<>>
    /\ m_pc = "in"
    /\ m_data = [tf \in {"1D", "1W"} |-> <<>>]
    /\ m_bar = Bar(1, 1)
    /\ m_once = [data |-> m_data, updated |-> FALSE]
    /\ m_twice = [data |-> m_data, updated |-> FALSE]
    /\ files = [f \in FileNames |-> NoFile]
    /\ index = NoFile
    /\ today = FirstDay
    /\ now = 0
    /\ runs = 0
    /\ pc = "idle"
    /\ rb = NoRebuild
    /\ dy = NoDaily
    /\ s_pc = "in" /\ s_info = <<>> /\ s_file = NoFile /\ s_fetched = <<>>
    /\ s_results = [updated |-> 0, failed |-> 0]
    /\ c_pc = "in" /\ c_prices = <<>> /\ c_result = None
    /\ rankings = NoFile /\ r_pc = "idle" /\ r_runs = 0
    /\ r_tickers = <<>> /\ r_prices = <<>> /\ r_all = <<>>

PlanSplit ==
    /\ p_pc = "in"
    /\ p_splits' = get_split_ranges(p_symbols, p_N)
    /\ p_pc' = "planned"
    /\ UNCHANGED <<p_symbols, p_N, mergeVars, storeVars, laterVars>>

PlanNext == PlanSplit

SpecPlan == PlanInit /\ [][PlanNext]_vars

----------------------------------------------------------------------------
(* The market-data provider, as the two jobs see it *)

\* fetch_ohlc_data for both timeframes of one symbol, asked on day `day`: the
\* provider holds daily bars for the k most recent days of the window asked
\* for, and the weekly bar they start. k = 0: no data, or the requests failed;
\* k = RebuildDays + 1: a bar for every day of today - RebuildDays .. today.
\* The code takes whatever the response lists and cuts nothing.
History(day, k) ==
    [tf \in {"1D", "1W"} |->
        IF tf = "1D" THEN [i \in 1..k |-> Bar(day - k + i, 1)]
        ELSE IF k = 0 THEN <<>> ELSE <<Bar(day - k + 1, 1)>>]

Histories(day) == {History(day, k) : k \in {0, RebuildDays, RebuildDays + 1}}

\* fetch_latest_daily_data: None, or the day's bar (by then corrected).
LatestBars(day) == {None, Bar(day, 2)}

----------------------------------------------------------------------------
(* process_ohlc_full.py: the full rebuild *)

\* main -> OHLCFullProcessor() -> process_all_symbols up to cleanup_old_files.
RebuildStart ==
    /\ pc = "idle"
    /\ runs < MaxRuns
    /\ runs' = runs + 1
    /\ now' = now + 1
    /\ \E symbols \in Universes :
          rb' = [NoRebuild EXCEPT
                    !.symbols = symbols,
                    !.splits = get_split_ranges(symbols, target_symbols_per_file),
                    !.timestamp = now',
                    !.i = 1]
    /\ pc' = "rb_cleanup"
    /\ UNCHANGED <<files, index, today, dy, mergeVars, planVars, laterVars>>

\* cleanup_old_files: one os.remove of a file whose name starts with 'ohlc_'
\* and ends with '.json', in the order os.listdir gives them (any order):
\* a shard file, or ohlc_index.json, whose name matches too.
RebuildRemove ==
    /\ pc = "rb_cleanup"
    /\ \/ /\ \E f \in FileNames :
                /\ files[f] # NoFile
                /\ files' = [files EXCEPT ![f] = NoFile]
          /\ UNCHANGED index
       \/ /\ index # NoFile
          /\ index' = NoFile
          /\ UNCHANGED files
    /\ UNCHANGED <<today, now, runs, pc, rb, dy, mergeVars, planVars, laterVars>>

\* cleanup_old_files returns: no file named ohlc_*.json is left. (The
\* single file ohlc.json of older versions, removed next, is not modelled.)
RebuildCleaned ==
    /\ pc = "rb_cleanup"
    /\ \A f \in FileNames : files[f] = NoFile
    /\ index = NoFile
    /\ pc' = IF rb.i <= Len(rb.splits) THEN "rb_chunk" ELSE "rb_index"
    /\ UNCHANGED <<files, index, today, now, runs, rb, dy, mergeVars, planVars, laterVars>>

\* process_symbol_chunk for split rb.i, then open(filename, 'w'). The
\* provider answers the requests of one chunk from the same days.
RebuildChunk ==
    /\ pc = "rb_chunk"
    /\ LET split_info == rb.splits[rb.i]
           chunk == Members(split_info.symbols)
       IN  /\ \E history \in Histories(today) :
                 rb' = [rb EXCEPT !.file_data =
                           [last_updated |-> rb.timestamp,
                            update_type |-> "full_rebuild",
                            data |-> [symbol \in chunk |-> history]]]
           /\ files' = [files EXCEPT ![split_info.filename] = Truncated]
    /\ pc' = "rb_dump"
    /\ UNCHANGED <<index, today, now, runs, dy, mergeVars, planVars, laterVars>>

\* json.dump of the shard, os.path.getsize, file_info.append.
RebuildDump ==
    /\ pc = "rb_dump"
    /\ LET split_info == rb.splits[rb.i]
       IN  /\ files' = [files EXCEPT ![split_info.filename] = rb.file_data]
           /\ rb' = [rb EXCEPT
                       !.file_info = Append(@,
                           [filename |-> split_info.filename,
                            range_start |-> split_info.range_start,
                            range_end |-> split_info.range_end,
                            symbol_count |-> split_info.symbol_count,
                            file_size |-> FileSize(rb.file_data),
                            symbols |-> split_info.symbols]),
                       !.file_data = NoFile,
                       !.i = @ + 1]
    /\ pc' = IF rb.i < Len(rb.splits) THEN "rb_chunk" ELSE "rb_index"
    /\ UNCHANGED <<index, today, now, runs, dy, mergeVars, planVars, laterVars>>

\* save_index: open('ohlc_index.json', 'w').
RebuildIndexOpen ==
    /\ pc = "rb_index"
    /\ index' = Truncated
    /\ pc' = "rb_index_dump"
    /\ UNCHANGED <<files, today, now, runs, rb, dy, mergeVars, planVars, laterVars>>

\* save_index: json.dump of the index; main returns.
RebuildIndexDump ==
    /\ pc = "rb_index_dump"
    /\ index' = [last_updated |-> rb.timestamp,
                 update_type |-> "full_rebuild",
                 total_symbols |-> Len(rb.symbols),
                 total_files |-> Len(rb.file_info),
                 files |-> rb.file_info]
    /\ pc' = "idle"
    /\ rb' = NoRebuild
    /\ UNCHANGED <<files, today, now, runs, dy, mergeVars, planVars, laterVars>>

----------------------------------------------------------------------------
(* process_ohlc_daily.py: the daily update *)

\* process_split_file's loop over file_info['symbols'][j..]: data is
\* file_data['data'], fetched the bar (or None) the provider returns for each
\* symbol; returns the data and the two counters.
RECURSIVE ProcessSymbols(_, _, _, _, _)

\* Mutant: a symbol without a new bar ends the loop.
ProcessSymbols_StopsAtNoBar(data, symbols, fetched, j, counts) ==
    IF j > Len(symbols) THEN [data |-> data, counts |-> counts]
    ELSE LET symbol == symbols[j]
         IN  IF symbol \in DOMAIN data
             THEN LET latest_bar == fetched[symbol]
                  IN  IF latest_bar # None
                      THEN LET r == update_symbol_data(data[symbol], latest_bar,
                                                       latest_bar.t)
                           IN  ProcessSymbols(
                                   [data EXCEPT ![symbol] = r.data],
                                   symbols, fetched, j + 1,
                                   IF r.updated
                                   THEN [counts EXCEPT !.updated = @ + 1]
                                   ELSE counts)
                      ELSE [data |-> data,
                            counts |-> [counts EXCEPT !.failed = @ + 1]]
             ELSE ProcessSymbols(data, symbols, fetched, j + 1,
                                 [counts EXCEPT !.failed = @ + 1])

ProcessSymbols(data, symbols, fetched, j, counts) ==
    IF j > Len(symbols) THEN [data |-> data, counts |-> counts]
    ELSE LET symbol == symbols[j]
         IN  IF symbol \in DOMAIN data
             THEN LET latest_bar == fetched[symbol]
                  IN  IF latest_bar # None
                      THEN LET r == update_symbol_data(data[symbol], latest_bar,
                                                       latest_bar.t)
                           IN  ProcessSymbols(
                                   [data EXCEPT ![symbol] = r.data],
                                   symbols, fetched, j + 1,
                                   IF r.updated
                                   THEN [counts EXCEPT !.updated = @ + 1]
                                   ELSE counts)
                      ELSE ProcessSymbols(data, symbols, fetched, j + 1,
                                          [counts EXCEPT !.failed = @ + 1])
             ELSE ProcessSymbols(data, symbols, fetched, j + 1,
                                 [counts EXCEPT !.failed = @ + 1])

\* main: load_index_file raises when ohlc_index.json is missing or unreadable.
DailyNoIndex ==
    /\ pc = "idle"
    /\ runs < MaxRuns
    /\ ~IsContent(index)
    /\ runs' = runs + 1
    /\ UNCHANGED <<files, index, today, now, pc, rb, dy, mergeVars, planVars, laterVars>>

\* main: load_index_file, then process_daily_updates up to its loop.
DailyStart ==
    /\ pc = "idle"
    /\ runs < MaxRuns
    /\ IsContent(index)
    /\ runs' = runs + 1
    /\ dy' = [NoDaily EXCEPT !.index_data = index, !.i = 1]
    /\ pc' = IF Len(index.files) >= 1 THEN "d_file" ELSE "d_index"
    /\ UNCHANGED <<files, index, today, now, rb, mergeVars, planVars, laterVars>>

\* Mutant: a shard that cannot be loaded is skipped.
DailyLoadFails_SkipsShard ==
    /\ pc = "d_file"
    /\ ~IsContent(files[dy.index_data.files[dy.i].filename])
    /\ dy' = [dy EXCEPT !.i = @ + 1]
    /\ pc' = IF dy.i < Len(dy.index_data.files) THEN "d_file" ELSE "d_index"
    /\ UNCHANGED <<files, index, today, now, runs, rb, mergeVars, planVars, laterVars>>

\* process_split_file: load_split_file logs and re-raises (open or json.load
\* failed); nothing between there and main catches the exception.
DailyLoadFails ==
    /\ pc = "d_file"
    /\ ~IsContent(files[dy.index_data.files[dy.i].filename])
    /\ pc' = "d_raised"
    /\ UNCHANGED <<files, index, today, now, runs, rb, dy, mergeVars, planVars, laterVars>>

\* main's except clause logs "Daily update failed" and re-raises: the process
\* ends with the error.
DailyRaise ==
    /\ pc = "d_raised"
    /\ pc' = "idle"
    /\ dy' = NoDaily
    /\ UNCHANGED <<files, index, today, now, runs, rb, mergeVars, planVars, laterVars>>

\* process_split_file for file dy.i: load_split_file, the loop over the
\* file's symbols, the metadata, and save_split_file's open(filename, 'w').
DailyMerge ==
    /\ pc = "d_file"
    /\ LET file_info == dy.index_data.files[dy.i]
           file_data == files[file_info.filename]
       IN  /\ IsContent(file_data)
           /\ now' = now + 1
           /\ \E fetched \in [Members(file_info.symbols) -> LatestBars(today)] :
                 LET r == ProcessSymbols(file_data.data, file_info.symbols,
                                         fetched, 1,
                                         [updated |-> 0, failed |-> 0])
                 IN  dy' = [dy EXCEPT
                               !.loaded = file_data,
                               !.fetched = fetched,
                               !.file_data = [file_data EXCEPT
                                                 !.data = r.data,
                                                 !.last_updated = now',
                                                 !.update_type = "daily_update"],
                               !.results = r.counts]
           /\ files' = [files EXCEPT ![file_info.filename] = Truncated]
    /\ pc' = "d_dump"
    /\ UNCHANGED <<index, today, runs, rb, mergeVars, planVars, laterVars>>

\* Mutant: the index's last_updated follows every shard write.
DailyDump_AdvancesIndex ==
    /\ pc = "d_dump"
    /\ files' = [files EXCEPT ![dy.index_data.files[dy.i].filename] = dy.file_data]
    /\ index' = [index EXCEPT !.last_updated = dy.file_data.last_updated]
    /\ dy' = [dy EXCEPT !.total_updated = @ + dy.results.updated,
                        !.total_failed = @ + dy.results.failed,
                        !.i = @ + 1]
    /\ pc' = IF dy.i < Len(dy.index_data.files) THEN "d_file" ELSE "d_index"
    /\ UNCHANGED <<today, now, runs, rb, mergeVars, planVars, laterVars>>

\* Mutant: the copy that was loaded is saved, not the one the bars went into.
DailyDump_WritesLoaded ==
    /\ pc = "d_dump"
    /\ files' = [files EXCEPT ![dy.index_data.files[dy.i].filename] = dy.loaded]
    /\ dy' = [dy EXCEPT !.total_updated = @ + dy.results.updated,
                        !.total_failed = @ + dy.results.failed,
                        !.i = @ + 1]
    /\ pc' = IF dy.i < Len(dy.index_data.files) THEN "d_file" ELSE "d_index"
    /\ UNCHANGED <<index, today, now, runs, rb, mergeVars, planVars, laterVars>>

\* save_split_file's json.dump; process_split_file returns its counters and
\* process_daily_updates adds them up.
DailyDump ==
    /\ pc = "d_dump"
    /\ files' = [files EXCEPT ![dy.index_data.files[dy.i].filename] = dy.file_data]
    /\ dy' = [dy EXCEPT !.total_updated = @ + dy.results.updated,
                        !.total_failed = @ + dy.results.failed,
                        !.i = @ + 1]
    /\ pc' = IF dy.i < Len(dy.index_data.files) THEN "d_file" ELSE "d_index"
    /\ UNCHANGED <<index, today, now, runs, rb, mergeVars, planVars, laterVars>>

\* process_daily_updates sets the index metadata and returns;
\* save_updated_index opens ohlc_index.json with 'w'.
DailyIndexOpen ==
    /\ pc = "d_index"
    /\ now' = now + 1
    /\ dy' = [dy EXCEPT !.index_data.last_updated = now',
                        !.index_data.update_type = "daily_update"]
    /\ index' = Truncated
    /\ pc' = "d_index_dump"
    /\ UNCHANGED <<files, today, runs, rb, mergeVars, planVars, laterVars>>

\* save_updated_index: json.dump of index_data, and only then the loop that
\* sets each file_info['file_size'] from os.path.getsize, in memory.
DailyIndexDump ==
    /\ pc = "d_index_dump"
    /\ index' = dy.index_data
    /\ dy' = [dy EXCEPT !.index_data.files =
                 [k \in 1..Len(dy.index_data.files) |->
                     LET file_info == dy.index_data.files[k]
                     IN  IF files[file_info.filename] # NoFile
                         THEN [file_info EXCEPT !.file_size =
                                  FileSize(files[file_info.filename])]
                         ELSE file_info]]
    /\ pc' = "d_done"
    /\ UNCHANGED <<files, today, now, runs, rb, mergeVars, planVars, laterVars>>

\* main returns.
DailyExit ==
    /\ pc = "d_done"
    /\ pc' = "idle"
    /\ dy' = NoDaily
    /\ UNCHANGED <<files, index, today, now, runs, rb, mergeVars, planVars, laterVars>>

----------------------------------------------------------------------------
(* The environment *)

\* Midnight passes between two runs.
Tick ==
    /\ pc = "idle"
    /\ today < FirstDay + MaxTicks
    /\ today' = today + 1
    /\ UNCHANGED <<files, index, now, runs, pc, rb, dy, mergeVars, planVars, laterVars>>

\* The running job is stopped where it is (the runner cancels it, or a write
\* raises): its locals are lost, the files stay as they are.
Abort ==
    /\ pc \notin {"idle", "d_done", "d_raised"}
    /\ pc' = "idle"
    /\ rb' = NoRebuild
    /\ dy' = NoDaily
    /\ UNCHANGED <<files, index, today, now, runs, mergeVars, planVars, laterVars>>

Next ==
    \/ RebuildStart
    \/ RebuildRemove
    \/ RebuildCleaned
    \/ RebuildChunk
    \/ RebuildDump
    \/ RebuildIndexOpen
    \/ RebuildIndexDump
    \/ DailyNoIndex
    \/ DailyStart
    \/ DailyLoadFails
    \/ DailyRaise
    \/ DailyMerge
    \/ DailyDump
    \/ DailyIndexOpen
    \/ DailyIndexDump
    \/ DailyExit
    \/ Tick
    \/ Abort

Init ==
    /\ files = [f \in FileNames |-> NoFile]
    /\ index = NoFile
    /\ today = FirstDay
    /\ now = 0
    /\ runs = 0
    /\ pc = "idle"
    /\ rb = NoRebuild
    /\ dy = NoDaily
    /\ m_pc = "in"
    /\ m_data = [tf \in {"1D", "1W"} |-> <<>>]
    /\ m_bar = Bar(1, 1)
    /\ m_once = [data |-> m_data, updated |-> FALSE]
    /\ m_twice = [data |-> m_data, updated |-> FALSE]
    /\ p_pc = "in" /\ p_symbols = <<>> /\ p_N = 1 /\ p_splits = <<>>
    /\ s_pc = "in" /\ s_info = <<>> /\ s_file = NoFile /\ s_fetched = <<>>
    /\ s_results = [updated |-> 0, failed |-> 0]
    /\ c_pc = "in" /\ c_prices = <<>> /\ c_result = None
    /\ rankings = NoFile /\ r_pc = "idle" /\ r_runs = 0
    /\ r_tickers = <<>> /\ r_prices = <<>> /\ r_all = <<>>

Spec == Init /\ [][Next]_vars

----------------------------------------------------------------------------
(* SpecSplit: OHLCDailyProcessor.process_split_file on the files it finds *)

\* The daily update reads ohlc_index.json and the shard files from the
\* working directory as it finds them there; process_split_file has a branch
\* of its own for a symbol the descriptor lists and the shard's data lacks.
\* Here the descriptor and the shard are drawn independently of each other.
RECURSIVE DistinctLists(_, _)
DistinctLists(S, n) ==
    IF n = 0 THEN {<<>>}
    ELSE LET shorter == DistinctLists(S, n - 1)
         IN  shorter \cup
             UNION {{Append(l, x) : x \in S \ Members(l)} : l \in shorter}

SplitInit ==
    /\ s_pc = "in"
    /\ \E symbols \in DistinctLists(Symbols, MaxListed) :
          /\ s_info = [filename |-> 1, symbols |-> symbols]
          /\ s_fetched \in [Members(symbols) -> LatestBars(FirstDay)]
    /\ \E held \in SUBSET Symbols, k \in {0, RebuildDays} :
          s_file = [last_updated |-> 0,
                    update_type |-> "full_rebuild",
                    data |-> [symbol \in held |-> History(FirstDay, k)]]
    /\ s_results = [updated |-> 0, failed |-> 0]
    /\ m_pc = "in"
    /\ m_data = [tf \in {"1D", "1W"} |-> <<>>]
    /\ m_bar = Bar(1, 1)
    /\ m_once = [data |-> m_data, updated |-> FALSE]
    /\ m_twice = [data |-> m_data, updated |-> FALSE]
    /\ p_pc = "in" /\ p_symbols = <<>> /\ p_N = 1 /\ p_splits = <<>>
    /\ files = [f \in FileNames |-> NoFile]
    /\ index = NoFile
    /\ today = FirstDay
    /\ now = 0
    /\ runs = 0
    /\ pc = "idle"
    /\ rb = NoRebuild
    /\ dy = NoDaily
    /\ c_pc = "in" /\ c_prices = <<>> /\ c_result = None
    /\ rankings = NoFile /\ r_pc = "idle" /\ r_runs = 0
    /\ r_tickers = <<>> /\ r_prices = <<>> /\ r_all = <<>>

\* process_split_file from load_split_file to its return.
SplitProcess ==
    /\ s_pc = "in"
    /\ now' = now + 1
    /\ LET r == ProcessSymbols(s_file.data, s_info.symbols, s_fetched, 1,
                               [updated |-> 0, failed |-> 0])
       IN  /\ s_file' = [s_file EXCEPT !.data = r.data,
                                       !.last_updated = now',
                                       !.update_type = "daily_update"]
           /\ s_results' = r.counts
    /\ s_pc' = "done"
    /\ UNCHANGED <<s_info, s_fetched, files, index, today, runs, pc, rb, dy,
                   mergeVars, planVars, returnVars, rankVars>>

SplitNext == SplitProcess

SpecSplit == SplitInit /\ [][SplitNext]_vars

----------------------------------------------------------------------------
(* process_stocks.py: returns and RS score *)

\* A bar of the aggregates response, as far as the ranking reads it.
PriceBar(t, c, v) == [t |-> t, c |-> c, v |-> v]

\* calculate_returns needs 252 bars (process_stocks.py:91), get_stock_data
\* more than 200 results (:76), the average volume is over the last 20 bars
\* (:118); scaled down, with the order 200 < 252 kept.
MinBars == 4
SufficientResults == 2
VolumeDays == 2

\* periods: 63, 126, 189 and 252 trading days, scaled down by 63; the
\* longest period is MinBars, as in the program.
periods == [period \in {"3m", "6m", "9m", "12m"} |->
               CASE period = "3m" -> 1
                 [] period = "6m" -> 2
                 [] period = "9m" -> 3
                 [] period = "12m" -> 4]

\* The program's floats are quotients of closes and sums of them: a number
\* is kept as numerator over (positive) denominator, and compared exactly.
Frac(n, d) == [num |-> n, den |-> d]
Zero == Frac(0, 1)
FracAdd(a, b) == Frac(a.num * b.den + b.num * a.den, a.den * b.den)
FracTimes(k, a) == Frac(k * a.num, a.den)
FracLess(a, b) == a.num * b.den < b.num * a.den
FracEq(a, b) == a.num * b.den = b.num * a.den

RECURSIVE SumVolumes(_)
SumVolumes(s) == IF s = <<>> THEN 0 ELSE Head(s).v + SumVolumes(Tail(s))

\* Mutant: the reference bar is one bar too recent (prices[-days]).
OldPrice_OneBarLate(prices, days) == prices[Len(prices) - days + 1].c

\* prices[-(days+1)]['c']
OldPrice(prices, days) == prices[Len(prices) - days].c

\* calculate_returns: None, or (returns, avg_volume).
calculate_returns(prices) ==
    IF Len(prices) < MinBars THEN None
    ELSE LET sorted == SortByT(prices)
             current_price == sorted[Len(sorted)].c
             returns ==
                 [period \in DOMAIN periods |->
                     LET days == periods[period]
                     IN  IF Len(sorted) > days
                         THEN LET old_price == OldPrice(sorted, days)
                              IN  IF old_price > 0
                                  THEN Frac(current_price - old_price, old_price)
                                  ELSE Zero
                         ELSE Zero]
             recent_volumes == LastN(sorted, VolumeDays)
         IN  [returns |-> returns,
              avg_volume |-> Frac(SumVolumes(recent_volumes), Len(recent_volumes))]

\* calculate_rs_score (returns is never empty when main calls it).
calculate_rs_score(returns) ==
    FracAdd(FracAdd(FracAdd(FracTimes(2, returns["3m"]),
                            FracTimes(1, returns["6m"])),
                    FracTimes(1, returns["9m"])),
            FracTimes(1, returns["12m"]))

----------------------------------------------------------------------------
(* SpecReturns *)

RECURSIVE CloseLists(_, _)
CloseLists(n, hi) ==
    IF n = 0 THEN {<<>>}
    ELSE {Append(l, c) : l \in CloseLists(n - 1, hi), c \in 0..hi}

\* The response's bars in ascending order of time, one unit of volume each.
Prices(closes) == [i \in 1..Len(closes) |-> PriceBar(i, closes[i], 1)]

PriceSeries ==
    UNION {{Prices(l) : l \in CloseLists(n, MaxClose)} :
              n \in 0..(MinBars + MaxExtraBars)}

ReturnsInit ==
    /\ c_pc = "in"
    /\ c_prices \in PriceSeries
    /\ c_result = None
    /\ m_pc = "in"
    /\ m_data = [tf \in {"1D", "1W"} |-> <<>>]
    /\ m_bar = Bar(1, 1)
    /\ m_once = [data |-> m_data, updated |-> FALSE]
    /\ m_twice = [data |-> m_data, updated |-> FALSE]
    /\ p_pc = "in" /\ p_symbols = <<>> /\ p_N = 1 /\ p_splits = <<>>
    /\ files = [f \in FileNames |-> NoFile]
    /\ index = NoFile
    /\ today = FirstDay
    /\ now = 0
    /\ runs = 0
    /\ pc = "idle"
    /\ rb = NoRebuild
    /\ dy = NoDaily
    /\ s_pc = "in" /\ s_info = <<>> /\ s_file = NoFile /\ s_fetched = <<>>
    /\ s_results = [updated |-> 0, failed |-> 0]
    /\ rankings = NoFile /\ r_pc = "idle" /\ r_runs = 0
    /\ r_tickers = <<>> /\ r_prices = <<>> /\ r_all = <<>>

ReturnsCall ==
    /\ c_pc = "in"
    /\ c_result' = calculate_returns(c_prices)
    /\ c_pc' = "done"
    /\ UNCHANGED <<c_prices, mergeVars, planVars, storeVars, splitVars, rankVars>>

ReturnsNext == ReturnsCall

SpecReturns == ReturnsInit /\ [][ReturnsNext]_vars

----------------------------------------------------------------------------
(* process_stocks.py: the ranking run *)

\* get_stock_data: the results when the response has status 200 and more
\* than 200 results, else None (a 429 is asked again).
get_stock_data(response) ==
    IF response.status_code = 200 /\ Len(response.results) > SufficientResults
    THEN [prices |-> response.results]
    ELSE None

\* main's loop over tickers[i..]: all_stock_data.
RECURSIVE CollectStockData(_, _, _)
CollectStockData(tickers, responses, i) ==
    IF i > Len(tickers) THEN <<>>
    ELSE LET ticker == tickers[i]
             got == get_stock_data(responses[ticker])
             rest == CollectStockData(tickers, responses, i + 1)
         IN  IF got # None
             THEN LET result == calculate_returns(got.prices)
                  IN  IF result # None
                      THEN <<[symbol |-> ticker,
                              rs_score |-> calculate_rs_score(result.returns),
                              avg_volume |-> result.avg_volume.num
                                                 \div result.avg_volume.den,
                              returns |-> result.returns]>> \o rest
                      ELSE rest
             ELSE rest

\* list.sort(key=rs_score, reverse=True): descending and stable.
RECURSIVE InsertByScore(_, _)
InsertByScore(sorted, stock) ==
    IF sorted = <<>> THEN <<stock>>
    ELSE IF FracLess(Head(sorted).rs_score, stock.rs_score)
         THEN <<stock>> \o sorted
         ELSE <<Head(sorted)>> \o InsertByScore(Tail(sorted), stock)

\* Mutant: the list is ranked in the order it was collected.
SortByScore_Unsorted(s) == s

RECURSIVE SortByScore(_)
SortByScore(s) ==
    IF s = <<>> THEN <<>>
    ELSE InsertByScore(SortByScore(SubSeq(s, 1, Len(s) - 1)), s[Len(s)])

\* Mutant: the percentile is not capped.
rs_rank_Uncapped(total_stocks, i) ==
    ((total_stocks - i) * 99) \div total_stocks + 1

\* percentile = int(((total_stocks - i) / total_stocks) * 99) + 1 and
\* rs_rank = min(percentile, 99). The quotient and the product are doubles;
\* for every total_stocks up to 10 int() of the product is the floor of the
\* exact value (rounding first shows at total_stocks = 11, where 6 / 11 * 99
\* evaluates to 53.99999999999999). The model ranks at most 10 stocks.
rs_rank(total_stocks, i) ==
    Min(((total_stocks - i) * 99) \div total_stocks + 1, 99)

\* all_stock_data after the sort, every stock with its rs_rank.
Ranked(all_stock_data) ==
    LET sorted == SortByScore(all_stock_data)
        total_stocks == Len(sorted)
    IN  [k \in 1..total_stocks |->
            [symbol |-> sorted[k].symbol,
             rs_score |-> sorted[k].rs_score,
             avg_volume |-> sorted[k].avg_volume,
             returns |-> sorted[k].returns,
             rs_rank |-> rs_rank(total_stocks, k - 1)]]

\* output_data (the formatted avg_volume string is left out: raw_volume is
\* the number it is made from).
OutputData(all_stock_data) ==
    [k \in 1..Len(all_stock_data) |->
        [symbol |-> all_stock_data[k].symbol,
         rs_rank |-> all_stock_data[k].rs_rank,
         raw_volume |-> all_stock_data[k].avg_volume]]

IsArtifact(f) == "total_stocks" \in DOMAIN f

\* get_all_tickers: the first n tickers the provider lists, "A", "B", ...
\* (within the 3000 main keeps).
Tickers(n) == [i \in 1..n |-> <<i>>]

\* What the provider answers for one ticker: an error, or 2 to 5 bars.
\* Three bars pass get_stock_data and are too few for calculate_returns.
Responses ==
    {[status_code |-> 500, results |-> <<>>]} \cup
    {[status_code |-> 200, results |-> Prices(closes)] :
        closes \in {<<1, 1>>, <<1, 1, 1>>, <<1, 1, 1, 1>>, <<1, 1, 1, 2>>,
                    <<2, 1, 1, 1, 1>>}}

RankInit ==
    /\ rankings = NoFile
    /\ r_pc = "idle"
    /\ r_runs = 0
    /\ r_tickers = <<>>
    /\ r_prices = <<>>
    /\ r_all = <<>>
    /\ m_pc = "in"
    /\ m_data = [tf \in {"1D", "1W"} |-> <<>>]
    /\ m_bar = Bar(1, 1)
    /\ m_once = [data |-> m_data, updated |-> FALSE]
    /\ m_twice = [data |-> m_data, updated |-> FALSE]
    /\ p_pc = "in" /\ p_symbols = <<>> /\ p_N = 1 /\ p_splits = <<>>
    /\ files = [f \in FileNames |-> NoFile]
    /\ index = NoFile
    /\ today = FirstDay
    /\ now = 0
    /\ runs = 0
    /\ pc = "idle"
    /\ rb = NoRebuild
    /\ dy = NoDaily
    /\ s_pc = "in" /\ s_info = <<>> /\ s_file = NoFile /\ s_fetched = <<>>
    /\ s_results = [updated |-> 0, failed |-> 0]
    /\ c_pc = "in" /\ c_prices = <<>> /\ c_result = None

\* main: get_all_tickers returns nothing, "Failed to get tickers!".
RankNoTickers ==
    /\ r_pc = "idle"
    /\ r_runs < MaxRankRuns
    /\ r_runs' = r_runs + 1
    /\ UNCHANGED <<rankings, r_pc, r_tickers, r_prices, r_all,
                   mergeVars, planVars, storeVars, splitVars, returnVars>>

\* main up to "Successfully processed": the tickers and the loop over them.
RankCollect ==
    /\ r_pc = "idle"
    /\ r_runs < MaxRankRuns
    /\ r_runs' = r_runs + 1
    /\ \E n \in 1..MaxTickers :
          \E responses \in [Members(Tickers(n)) -> Responses] :
              /\ r_tickers' = Tickers(n)
              /\ r_prices' = responses
              /\ r_all' = CollectStockData(Tickers(n), responses, 1)
    /\ r_pc' = "collected"
    /\ UNCHANGED <<rankings, mergeVars, planVars, storeVars, splitVars, returnVars>>

\* main, "if all_stock_data:": sort, rank, format, write rankings.json.
RankSave ==
    /\ r_pc = "collected"
    /\ r_all # <<>>
    /\ r_all' = Ranked(r_all)
    /\ now' = now + 1
    /\ LET output_data == OutputData(r_all')
       IN  rankings' = [last_updated |-> now',
                        total_stocks |-> Len(output_data),
                        data |-> output_data]
    /\ r_pc' = "done"
    /\ UNCHANGED <<r_runs, r_tickers, r_prices, files, index, today, runs, pc,
                   rb, dy, mergeVars, planVars, splitVars, returnVars>>

\* main, "else:": "No stock data was successfully processed".
RankNoData ==
    /\ r_pc = "collected"
    /\ r_all = <<>>
    /\ r_pc' = "done"
    /\ UNCHANGED <<rankings, r_runs, r_tickers, r_prices, r_all,
                   mergeVars, planVars, storeVars, splitVars, returnVars>>

\* main returns.
RankExit ==
    /\ r_pc = "done"
    /\ r_pc' = "idle"
    /\ r_tickers' = <<>>
    /\ r_prices' = <<>>
    /\ r_all' = <<>>
    /\ UNCHANGED <<rankings, r_runs,
                   mergeVars, planVars, storeVars, splitVars, returnVars>>

RankNext ==
    \/ RankNoTickers
    \/ RankCollect
    \/ RankSave
    \/ RankNoData
    \/ RankExit

SpecRank == RankInit /\ [][RankNext]_vars

----------------------------------------------------------------------------
(* Claims about update_symbol_data (SpecMerge) *)

Timestamps(s) == {s[i].t : i \in 1..Len(s)}
BarsOf(s) == {s[i] : i \in 1..Len(s)}
StrictlyIncreasing(s) == \A i \in 1..(Len(s) - 1) : s[i].t < s[i + 1].t

\* What C1 says of a merge of bar b into series s with result r.
MergeContract(s, b, r) ==
    IF b.t \in Timestamps(s)
    THEN /\ Len(r) = Len(s)
         /\ \E i \in 1..Len(s) :
               /\ s[i].t = b.t
               /\ r[i] = b
               /\ \A j \in (1..Len(s)) \ {i} : r[j] = s[j]
    ELSE /\ StrictlyIncreasing(r)
         /\ Len(r) = Min(Len(s) + 1, RetentionCap)
         /\ BarsOf(r) \subseteq BarsOf(s) \cup {b}
         /\ \A x \in (BarsOf(s) \cup {b}) \ BarsOf(r) :
               \A y \in BarsOf(r) : x.t < y.t

\* C1: a merge of bar b into a 1D series replaces the bar with b's timestamp
\* in place when there is one, leaving the length and every other bar as they
\* were; otherwise the result is the series plus b, ascending by timestamp,
\* cut to its last RetentionCap bars.
C1_MergeContract ==
    m_pc # "in" => MergeContract(m_data["1D"], m_bar, m_once.data["1D"])

\* A series at the cap received a newer bar and lost its oldest one.
C1_Witness ==
    /\ m_pc = "once"
    /\ Len(m_data["1D"]) = RetentionCap
    /\ \A t \in Timestamps(m_data["1D"]) : t < m_bar.t
    /\ m_once.data["1D"] =
          Append(Slice(m_data["1D"], 2, RetentionCap), m_bar)

\* C2: merging the same bar a second time leaves the series exactly as the
\* first merge left it, also when the series is at the cap.
C2_Idempotent ==
    m_pc = "twice" => m_twice.data = m_once.data

\* Both merges ran on a series at the cap, and the first one changed it.
C2_Witness ==
    /\ m_pc = "twice"
    /\ Len(m_data["1D"]) = RetentionCap
    /\ m_bar.t \notin Timestamps(m_data["1D"])
    /\ m_once.data # m_data
    /\ Len(m_twice.data["1D"]) = RetentionCap

\* C4: a series with strictly increasing timestamps still has strictly
\* increasing timestamps after a merge of any bar.
C4_OrderKept ==
    (m_pc # "in" /\ StrictlyIncreasing(m_data["1D"]))
        => StrictlyIncreasing(m_once.data["1D"])

\* The merged bar's timestamp fell between two bars of the series.
C4_Witness ==
    /\ m_pc = "once"
    /\ StrictlyIncreasing(m_data["1D"])
    /\ m_bar.t \notin Timestamps(m_data["1D"])
    /\ \E t1, t2 \in Timestamps(m_data["1D"]) : t1 < m_bar.t /\ m_bar.t < t2
    /\ m_bar \in BarsOf(m_once.data["1D"])

----------------------------------------------------------------------------
(* Claims about get_split_ranges (SpecPlan) *)

NoRepeats(s) == \A i, j \in 1..Len(s) : i # j => s[i] # s[j]

\* C5: for a universe without repeats and a shard size N >= 1, the shards'
\* member lists are pairwise disjoint, their union is the universe, and there
\* are ceil(|U| / N) of them; the empty universe gets the empty plan.
C5_Partition ==
    (p_pc = "planned" /\ NoRepeats(p_symbols)) =>
        LET U == Members(p_symbols)
            n == Len(p_splits)
        IN  /\ \A k \in 1..n : NoRepeats(p_splits[k].symbols)
            /\ \A k1, k2 \in 1..n :
                  k1 # k2 => Members(p_splits[k1].symbols)
                                \cap Members(p_splits[k2].symbols) = {}
            /\ UNION {Members(p_splits[k].symbols) : k \in 1..n} = U
            /\ n * p_N >= Cardinality(U)
            /\ (n > 0 => (n - 1) * p_N < Cardinality(U))
            /\ (U = {} => p_splits = <<>>)

\* A plan of several shards whose last shard is not full.
C5_Witness ==
    /\ p_pc = "planned"
    /\ NoRepeats(p_symbols)
    /\ Len(p_splits) >= 2
    /\ p_splits[Len(p_splits)].symbol_count < p_N

\* The symbol of U at sorted position pos (from 1).
SymbolAt(U, pos) ==
    CHOOSE x \in U : Cardinality({y \in U : SymLess(y, x)}) = pos - 1

\* C6: the plan is the reference chunking of the sorted universe: shard k
\* (from 1) holds the symbols at sorted positions (k-1)*N+1 .. min(k*N, |U|),
\* every shard but the last has N members, the last has 1..N, range_start and
\* range_end are the chunk's first and last symbol; the reference reads only
\* the set U and N, so every ordering of U gets the same plan.
C6_ReferenceChunks ==
    (p_pc = "planned" /\ NoRepeats(p_symbols)) =>
        LET U == Members(p_symbols)
            n == Len(p_splits)
        IN  /\ n * p_N >= Cardinality(U)
            /\ \A k \in 1..n :
                  LET first == (k - 1) * p_N + 1
                      last == Min(k * p_N, Cardinality(U))
                      chunk == p_splits[k].symbols
                  IN  /\ first <= last
                      /\ chunk = [j \in 1..(last - first + 1) |->
                                     SymbolAt(U, first + j - 1)]
                      /\ (k < n => Len(chunk) = p_N)
                      /\ Len(chunk) \in 1..p_N
                      /\ p_splits[k].symbol_count = Len(chunk)
                      /\ p_splits[k].range_start = SymbolAt(U, first)
                      /\ p_splits[k].range_end = SymbolAt(U, last)

\* A universe listed out of order was planned into several shards.
C6_Witness ==
    /\ p_pc = "planned"
    /\ NoRepeats(p_symbols)
    /\ \E i, j \in 1..Len(p_symbols) : i < j /\ SymLess(p_symbols[j], p_symbols[i])
    /\ Len(p_splits) >= 2

----------------------------------------------------------------------------
(* Claims about the store (Spec) *)

\* The descriptor of the shard the daily update last merged, or is at.
MergedInfo == dy.index_data.files[IF pc = "d_dump" THEN dy.i ELSE dy.i - 1]

\* The symbols of that shard that were in the loaded file and got a bar.
MergedSymbols ==
    {x \in Members(MergedInfo.symbols) \cap DOMAIN dy.loaded.data :
        dy.fetched[x] # None}

\* The n most recent timestamps of T.
MostRecent(T, n) == {t \in T : Cardinality({u \in T : u > t}) < n}

\* C3: after any merge the 1D series has at most RetentionCap bars, and they
\* are the RetentionCap most recent by timestamp among the prior bars and the
\* merged bar.
C3_RollingCap ==
    pc = "d_dump" =>
        \A x \in MergedSymbols :
            LET s == dy.loaded.data[x]["1D"]
                b == dy.fetched[x]
                r == dy.file_data.data[x]["1D"]
            IN  /\ Len(r) <= RetentionCap
                /\ Timestamps(r) =
                      MostRecent(Timestamps(s) \cup {b.t}, RetentionCap)
                /\ \A i \in 1..Len(r) :
                      r[i] = b \/ (r[i].t # b.t /\ r[i] \in BarsOf(s))

\* The shard file as the daily update wrote it, against what it loaded.
JustWritten == pc \in {"d_file", "d_index"} /\ dy.i > 1

\* C7: when process_split_file rewrites a shard, every symbol of it that got
\* no bar has the series that were loaded, and a symbol that got a bar has
\* its other timeframes (1W) as loaded: only its 1D series can differ.
C7_Frame ==
    JustWritten =>
        LET written == files[MergedInfo.filename].data
            loaded == dy.loaded.data
        IN  /\ DOMAIN written = DOMAIN loaded
            /\ \A x \in DOMAIN loaded :
                  /\ DOMAIN written[x] = DOMAIN loaded[x]
                  /\ \A tf \in DOMAIN loaded[x] \ {"1D"} :
                        written[x][tf] = loaded[x][tf]
                  /\ x \notin MergedSymbols => written[x] = loaded[x]

\* A shard of two symbols was rewritten: one got a new bar, the other none.
C7_Witness ==
    /\ JustWritten
    /\ \E x, y \in DOMAIN dy.loaded.data :
          /\ x \in MergedSymbols
          /\ files[MergedInfo.filename].data[x]["1D"] # dy.loaded.data[x]["1D"]
          /\ dy.loaded.data[x]["1W"] # <<>>
          /\ y \notin MergedSymbols
          /\ dy.loaded.data[y]["1D"] # <<>>

\* Symbols listed in the first n descriptors of the index the run loaded.
RECURSIVE ListedIn(_, _)
ListedIn(descriptors, n) ==
    IF n = 0 THEN 0
    ELSE Len(descriptors[n].symbols) + ListedIn(descriptors, n - 1)

\* C8: in a daily update run whose shard loads all succeed, every symbol of
\* every descriptor is counted exactly once, as updated (present in the shard
\* and a bar fetched) or as failed (absent from the shard, or no bar), so
\* when the loop ends updated + failed is the number of symbols the index
\* lists; a failed symbol does not stop the symbols after it.
C8_BatchCounts ==
    /\ pc = "d_dump" =>
          /\ dy.results.updated = Cardinality(MergedSymbols)
          /\ dy.results.failed =
                Cardinality(Members(MergedInfo.symbols) \ MergedSymbols)
    /\ pc \in {"d_file", "d_index", "d_index_dump", "d_done"} =>
          dy.total_updated + dy.total_failed
              = ListedIn(dy.index_data.files, dy.i - 1)
    /\ pc \in {"d_index", "d_index_dump", "d_done"} =>
          dy.i = Len(dy.index_data.files) + 1

\* A run over two shards ended: a symbol of the first shard was counted as
\* failed, and the symbol of the last shard was still updated.
C8_Witness ==
    /\ pc = "d_done"
    /\ Len(dy.index_data.files) >= 2
    /\ dy.total_failed >= 1
    /\ dy.results.failed = 0
    /\ MergedSymbols # {}

\* C9: after a daily update run completes, every descriptor of the persisted
\* index records the byte size of its shard file as this run wrote it.
C9_IndexSizesFresh ==
    pc = "d_done" =>
        \A k \in 1..Len(index.files) :
            index.files[k].file_size = FileSize(files[index.files[k].filename])

\* C10: at every point, every shard file the persisted index names exists in
\* storage, and the symbols keyed in its data are the descriptor's members.
C10_IndexMatchesStorage ==
    IsContent(index) =>
        \A k \in 1..Len(index.files) :
            LET f == files[index.files[k].filename]
            IN  /\ IsContent(f)
                /\ DOMAIN f.data = Members(index.files[k].symbols)

\* C11: a shard write completes or leaves the previous version untouched, so
\* a reader of storage finds every shard file absent or complete, never empty
\* or partly written.
C11_ShardWriteAtomic ==
    \A f \in FileNames : files[f] # Truncated

\* The shard the daily update is about to load cannot be loaded.
StoreFault ==
    pc = "d_file" /\ ~IsContent(files[dy.index_data.files[dy.i].filename])

\* C12: when a shard the index lists cannot be loaded, the daily update run
\* ends there with the error: from the fault on, no shard file and not the
\* index file is written, and the run goes nowhere but to its end.
C12_FatalStoreFault ==
    [][(StoreFault \/ pc = "d_raised") =>
          /\ files' = files
          /\ index' = index
          /\ pc' \in {"d_raised", "idle"}]_vars

\* The exception is on its way out of main while a later shard of the index
\* is there to be loaded.
C12_Witness ==
    /\ pc = "d_raised"
    /\ dy.i < Len(dy.index_data.files)
    /\ IsContent(files[dy.index_data.files[dy.i + 1].filename])

\* The shard file of the k-th descriptor of the index the run loaded.
ShardOf(k) == files[dy.index_data.files[k].filename]

----------------------------------------------------------------------------
(* Claims about process_split_file (SpecSplit) *)

\* Positions of the descriptor's list whose symbol the shard holds and for
\* which the provider had no new bar.
NoDataPositions ==
    {j \in 1..Len(s_info.symbols) :
        /\ s_info.symbols[j] \in DOMAIN s_file.data
        /\ s_fetched[s_info.symbols[j]] = None}

\* C14: the counter of soft failures counts the symbols without a new bar
\* and nothing else: symbols the shard lacks (hard errors) are counted
\* elsewhere.
C14_SoftFailuresCountedApart ==
    s_pc = "done" => s_results.failed = Cardinality(NoDataPositions)

----------------------------------------------------------------------------
(* Claims about calculate_returns (SpecReturns) *)

\* The close the claim's formula refers to for horizon h: close[L - 1 - h],
\* counting from 0.
ReferenceClose(h) == c_prices[(Len(c_prices) - 1 - h) + 1].c
LastClose == c_prices[Len(c_prices)].c

\* C19 as claimed: for L >= 252 and each horizon h the return is
\* (lastClose - close[L-1-h]) / close[L-1-h] when L > h, for every
\* non-negative reference close, and 0 when L <= h.
C19_HorizonReturns_AsClaimed ==
    (c_pc = "done" /\ Len(c_prices) >= MinBars) =>
        \A period \in DOMAIN periods :
            LET h == periods[period]
            IN  c_result.returns[period] =
                    IF Len(c_prices) > h
                    THEN Frac(LastClose - ReferenceClose(h), ReferenceClose(h))
                    ELSE Zero

\* C19, amended: the formula is applied when L > h and the reference close
\* is positive; the return is 0 when L <= h, and also when the reference
\* close is 0. A series of exactly MinBars bars gets a 12-month return of 0.
C19_HorizonReturns ==
    (c_pc = "done" /\ Len(c_prices) >= MinBars) =>
        /\ \A period \in DOMAIN periods :
              LET h == periods[period]
              IN  c_result.returns[period] =
                      IF Len(c_prices) > h /\ ReferenceClose(h) > 0
                      THEN Frac(LastClose - ReferenceClose(h), ReferenceClose(h))
                      ELSE Zero
        /\ Len(c_prices) = MinBars => c_result.returns["12m"] = Zero

\* A series longer than every horizon, with a reference close of 0 and
\* positive ones, and a last close that differs from them.
C19_Witness ==
    /\ c_pc = "done"
    /\ Len(c_prices) > MinBars
    /\ ReferenceClose(periods["12m"]) = 0
    /\ ReferenceClose(periods["3m"]) > 0
    /\ LastClose > ReferenceClose(periods["3m"])
    /\ c_result.returns["3m"].num > 0

----------------------------------------------------------------------------
(* Claims about the ranking run (SpecRank) *)

\* clamp(x, lo, hi)
Clamp(x, lo, hi) == Max(lo, Min(x, hi))

\* The run has written its ranking: r_all is the ranked list.
RankingWritten == r_pc = "done" /\ r_all # <<>>

\* C15: with N stocks ranked, the stock at 0-based position i has
\* rs_rank = clamp(ceil((N - i) / N * 99), 1, 99).
C15_RankFormula ==
    RankingWritten =>
        LET N == Len(r_all)
        IN  \A i \in 0..(N - 1) :
                r_all[i + 1].rs_rank = Clamp(Ceil((N - i) * 99, N), 1, 99)

\* C16: a stock with a higher RS score than another has a rank at least as
\* high; of two ranked stocks with different scores the higher-scored has
\* the strictly higher rank.
C16_PercentileMonotone ==
    RankingWritten =>
        \A a, b \in 1..Len(r_all) :
            FracLess(r_all[b].rs_score, r_all[a].rs_score) =>
                /\ r_all[a].rs_rank >= r_all[b].rs_rank
                /\ Len(r_all) = 2 => r_all[a].rs_rank > r_all[b].rs_rank

\* Two stocks are ranked, and the one collected second has the higher score.
C16_Witness ==
    /\ RankingWritten
    /\ Len(r_all) = 2
    /\ r_all[1].symbol = r_tickers[2]
    /\ FracLess(r_all[2].rs_score, r_all[1].rs_score)

\* C17: every rank written is an integer of 1..99, for one stock ranked as
\* for many, and the first of the ranking, which no stock outscores, has
\* rank 99.
C17_RankBounds ==
    RankingWritten =>
        /\ \A k \in 1..Len(rankings.data) : rankings.data[k].rs_rank \in 1..99
        /\ rankings.data[1].rs_rank = 99
        /\ \A k \in 1..Len(r_all) :
              ~FracLess(r_all[1].rs_score, r_all[k].rs_score)

\* One stock alone is ranked.
C17_Witness ==
    /\ RankingWritten
    /\ rankings.total_stocks = 1
    /\ Len(r_tickers) > 1

\* The tickers whose series has the bars calculate_returns asks for.
Eligible ==
    {r_tickers[i] : i \in {j \in 1..Len(r_tickers) :
        /\ r_prices[r_tickers[j]].status_code = 200
        /\ Len(r_prices[r_tickers[j]].results) >= MinBars}}

\* C18: calculate_returns gives None exactly for the series shorter than
\* MinBars, and a symbol is in the run's output exactly if its own series
\* is long enough: total_stocks counts those symbols, so a short series in
\* place of a long one lowers it by one and moves no other symbol.
C18_InsufficientHistory ==
    r_pc = "done" =>
        /\ \A t \in Members(r_tickers) :
              (calculate_returns(r_prices[t].results) = None)
                  <=> (Len(r_prices[t].results) < MinBars)
        /\ IsArtifact(rankings)
        /\ rankings.total_stocks = Cardinality(Eligible)
        /\ {rankings.data[k].symbol : k \in 1..Len(rankings.data)} = Eligible

\* C20: a run in which no symbol is eligible writes an artifact with an
\* empty data list and total_stocks = 0 in place of the previous one.
C20_EmptyRankingRun ==
    (r_pc = "done" /\ Eligible = {}) =>
        /\ IsArtifact(rankings)
        /\ rankings.data = <<>>
        /\ rankings.total_stocks = 0

----------------------------------------------------------------------------
(* Claims about the order of a daily update run (Spec) *)

DailyRunning ==
    pc \in {"d_file", "d_dump", "d_raised", "d_index", "d_index_dump", "d_done"}

\* The bars the provider returned for the symbols of the shard the run is
\* at are in the 1D series of `data`.
MergesIn(fetched, data) ==
    \A x \in DOMAIN fetched \cap DOMAIN data :
        fetched[x] # None => fetched[x] \in BarsOf(data[x]["1D"])

\* C21: in a daily update run the index lists each shard once and the run
\* goes through the list one position at a time. A shard is loaded in one
\* step, as it is stored, and every bar fetched for its symbols is merged
\* into that copy; a shard file gets a new content only in the step that
\* saves this copy, which moves the run to the next position, so no shard
\* is written twice and the written shard holds every merge; the shards
\* before the current position are all written when the next is loaded.
C21_ShardAsUnit ==
    [][DailyRunning =>
          /\ \A a, b \in 1..Len(dy.index_data.files) :
                a # b => dy.index_data.files[a].filename
                             # dy.index_data.files[b].filename
          /\ pc' # "idle" => dy'.i \in {dy.i, dy.i + 1}
          /\ (pc = "d_file" /\ pc' = "d_dump") =>
                /\ dy'.i = dy.i
                /\ dy'.loaded = ShardOf(dy.i)
                /\ DOMAIN dy'.file_data.data = DOMAIN dy'.loaded.data
                /\ MergesIn(dy'.fetched, dy'.file_data.data)
                /\ \A k \in 1..(dy.i - 1) : IsContent(ShardOf(k))
          /\ \A f \in FileNames :
                (IsContent(files'[f]) /\ files'[f] # files[f]) =>
                    /\ pc = "d_dump"
                    /\ f = dy.index_data.files[dy.i].filename
                    /\ dy'.i = dy.i + 1
                    /\ files'[f] = dy.file_data
                    /\ MergesIn(dy.fetched, files'[f].data)
    ]_vars

\* A run over two shards ended; both were rewritten and hold the day's bar
\* for a symbol.
C21_Witness ==
    /\ pc = "d_done"
    /\ Len(dy.index_data.files) = 2
    /\ \A k \in 1..2 :
          /\ IsContent(ShardOf(k))
          /\ ShardOf(k).update_type = "daily_update"
          /\ \E x \in DOMAIN ShardOf(k).data :
                Bar(today, 2) \in BarsOf(ShardOf(k).data[x]["1D"])

----------------------------------------------------------------------------
(* Claim about what update_symbol_data reports (SpecMerge) *)

\* C22: when update_symbol_data returns True, the resulting 1D series has a
\* bar with the merged bar's timestamp and fields, whatever the prior
\* series, one at the cap that gets a bar older than all of its bars
\* included.
C22_MergedMeansPresent ==
    (m_pc # "in" /\ m_once.updated) => m_bar \in BarsOf(m_once.data["1D"])

=============================================================================
